---- MODULE Spec2Model ----
(***************************************************************************)
(* Model of SaveSMPL.save_smpl (src/save_smpl_node.py): one export call    *)
(* takes a parameter bundle and two output paths, writes an archive        *)
(* (np.savez) and an object file (pickle.dump) and returns a pair          *)
(* (file_path, info).  The file system (directories, files as sequences of *)
(* blocks) is shared state; every call has its own local frame.            *)
(***************************************************************************)
EXTENDS Integers, Sequences, FiniteSets, TLC

VARIABLES
    frames,   \* frames[p]: the local frame of invocation p (its arguments, locals, position)
    fs,       \* the file system: [dirs |-> set of directories, files |-> path :> file]
    fs0       \* the file system as it was before any invocation started

vars == <<frames, fs, fs0>>

(***************************************************************************)
(* Bounds                                                                  *)
(***************************************************************************)
\* the largest leading dimension (frame count T) of the generated bundles
MaxFrames == 5

Procs == {1, 2}

(***************************************************************************)
(* Paths: pathlib.Path as [abs, dir, name]; dir is the sequence of parent  *)
(* components, name the final component split at its dots.                 *)
(***************************************************************************)
Cwd == <<"cwd">>

MkPath(abs, dir, name) == [abs |-> abs, dir |-> dir, name |-> name]

\* the empty string "" of the failure pair, in the representation of str(path)
EmptyString == MkPath(FALSE, <<>>, <<>>)

\* PurePath.suffix: the last dot-separated part of the final component, "" if none
Suffix(p) == IF Len(p.name) > 1 THEN p.name[Len(p.name)] ELSE ""

\* PurePath.with_suffix(s): replaces the suffix, or appends s when there is none
WithSuffix(p, s) ==
    IF Suffix(p) = ""
    THEN [p EXCEPT !.name = Append(p.name, s)]
    ELSE [p EXCEPT !.name = Append(SubSeq(p.name, 1, Len(p.name) - 1), s)]

\* Path.absolute(): an absolute path is returned as it is, a relative one is
\* anchored at the working directory
Absolute(p) == IF p.abs THEN p ELSE MkPath(TRUE, Cwd \o p.dir, p.name)

\* Path.parent as an absolute directory (what mkdir acts on)
ParentDir(p) == Absolute(p).dir

\* the directory and all its ancestors
Ancestors(d) == {SubSeq(d, 1, k) : k \in 0..Len(d)}

\* Path.mkdir(parents, exist_ok) on directory d: [ok, dirs, err]
Mkdir(dirs, d, parents, exist_ok) ==
    IF d \in dirs
    THEN IF exist_ok
         THEN [ok |-> TRUE, dirs |-> dirs, err |-> ""]
         ELSE [ok |-> FALSE, dirs |-> dirs, err |-> "FileExistsError"]
    ELSE IF Ancestors(d) \ {d} \subseteq dirs
         THEN [ok |-> TRUE, dirs |-> dirs \cup {d}, err |-> ""]
         ELSE IF parents
              THEN [ok |-> TRUE, dirs |-> dirs \cup Ancestors(d), err |-> ""]
              ELSE [ok |-> FALSE, dirs |-> dirs, err |-> "FileNotFoundError"]

(***************************************************************************)
(* Values: a parameter value is a torch tensor, a numpy array or a plain   *)
(* list; data names the numeric content.                                   *)
(***************************************************************************)
Val(kind, dtype, shape, data) ==
    [kind |-> kind, dtype |-> dtype, shape |-> shape, data |-> data]

IsTensor(v) == v.kind = "tensor"

\* value.detach().cpu().numpy() raises TypeError for a dtype numpy lacks
Convertible(v) == ~(IsTensor(v) /\ v.dtype = "bfloat16")

\* lines 68-71: tensor -> detach().cpu().numpy(); anything else -> np.array(value)
ToNumpy(v) == Val("array", v.dtype, v.shape, v.data)

required_keys == <<"body_pose", "global_orient", "transl", "betas">>

Required == {required_keys[i] : i \in 1..Len(required_keys)}

Restrict(f, S) == [k \in S |-> f[k]]

EmptyMap == <<>>

(***************************************************************************)
(* Files.  A file is a sequence of blocks; a block records the content it  *)
(* belongs to and its position in it.  open(path, "wb") truncates, the     *)
(* write that follows puts the content at offset 0 of whatever the file    *)
(* then holds.  "open" is the set of invocations holding the file open for *)
(* writing, "by" the invocation whose write completed last (0: none),      *)
(* "raced" whether the latest open found the file held open by another     *)
(* invocation, "complete" whether a write has completed since that open.   *)
(***************************************************************************)
Content(fmt, data) == [fmt |-> fmt, data |-> data]

\* an array takes one block for its header and one more when it has elements
ArrBlocks(a) == IF a.shape = <<>> \/ a.shape[1] = 0 THEN 1 ELSE 2

\* an archive: one member per array, then the central directory
\* an object file: the record's four arrays (pickle stores a shared array once)
Members(c) == IF c.fmt = "npz" THEN c.data ELSE c.data["smpl_params_global"]

Size(c) ==
    LET m == Members(c)
        big == {k \in DOMAIN m : ArrBlocks(m[k]) > 1}
    IN  1 + Cardinality(DOMAIN m) + Cardinality(big)

Blocks(c) == [i \in 1..Size(c) |-> [c |-> c, i |-> i]]

File(blocks, by, open, raced, complete) ==
    [blocks |-> blocks, by |-> by, open |-> open, raced |-> raced, complete |-> complete]

Exists(files, path) == path \in DOMAIN files

\* variant: a mode that creates the file but does not truncate it ("ab", "r+b")
OpenKeep(files, path, p) ==
    IF Exists(files, path)
    THEN (path :> File(files[path].blocks, files[path].by, files[path].open \cup {p},
                       files[path].open \ {p} # {}, FALSE)) @@ files
    ELSE (path :> File(<<>>, 0, {p}, FALSE, FALSE)) @@ files

\* open(path, "wb"): create or truncate
OpenWB(files, path, p) ==
    IF Exists(files, path)
    THEN (path :> File(<<>>, files[path].by, files[path].open \cup {p},
                       files[path].open \ {p} # {}, FALSE)) @@ files
    ELSE (path :> File(<<>>, 0, {p}, FALSE, FALSE)) @@ files

\* the data lands at offset 0; what the file holds beyond it stays
Overwrite(old, new) == new \o SubSeq(old, Len(new) + 1, Len(old))

\* write the whole content and close
WriteClose(files, path, p, c) ==
    (path :> File(Overwrite(files[path].blocks, Blocks(c)), p,
                  files[path].open \ {p}, files[path].raced, TRUE)) @@ files

\* close without having written (the write failed)
CloseOnly(files, path, p) ==
    (path :> [files[path] EXCEPT !.open = @ \ {p}]) @@ files

\* what a reader gets: the content when the file is exactly one content's blocks
Holds(files, path, c) == Exists(files, path) /\ files[path].blocks = Blocks(c)

\* numpy's savez appends ".npz" to a file name that does not end with it
SavezTarget(p) ==
    IF Suffix(p) = "npz" THEN p ELSE [p EXCEPT !.name = Append(p.name, "npz")]

(***************************************************************************)
(* Exceptions, results and the local frame of one call.                    *)
(***************************************************************************)
Exc(type, key) == [type |-> type, key |-> key]

NoExc == Exc("none", "")

Info(head, exc, npz, npz_size, pkl, pkl_size, num_frames) ==
    [head |-> head, exc |-> exc, npz |-> npz, npz_size |-> npz_size,
     pkl |-> pkl, pkl_size |-> pkl_size, num_frames |-> num_frames]

Result(file_path, info) == [file_path |-> file_path, info |-> info]

NoResult == Result(EmptyString, Info("", NoExc, EmptyString, 0, EmptyString, 0, 0))

\* line 116: f"SaveSMPL failed: {str(e)}"
ErrorInfo(e) == Info("SaveSMPL failed: ", e, EmptyString, 0, EmptyString, 0, 0)

IdleFrame(p) ==
    [pc |-> "idle", self |-> p,
     smpl_params |-> EmptyMap, npz_output_path |-> EmptyString,
     pkl_output_path |-> EmptyString, fault |-> "none",
     global_params |-> EmptyMap, npz_path |-> EmptyString, pkl_path |-> EmptyString,
     np_params |-> EmptyMap, pred_np |-> EmptyMap, fallback |-> FALSE,
     written |-> <<>>,
     exc |-> NoExc, result |-> NoResult]

Out(st, f) == [st |-> st, fs |-> f]

\* an entry of a frame's record of the writes it completed: the file and the content
Written(path, c) == [path |-> path, c |-> c]

\* variant: the handler written as "except (ValueError, KeyError)"
CaughtValueAndKeyErrors(e) == e.type \in {"ValueError", "KeyError"}

\* the classes "except Exception" catches (line 115)
Caught(e) ==
    e.type \in {"ValueError", "KeyError", "TypeError", "OSError", "IndexError",
                "FileNotFoundError", "FileExistsError"}

\* variant: the handler removes the files the call has written before it returns
RaiseWithCleanup(st, f, e) ==
    LET mine == {st.written[i].path : i \in 1..Len(st.written)}
    IN  Out([st EXCEPT !.pc = "done", !.exc = e,
                       !.result = Result(EmptyString, ErrorInfo(e))],
            [f EXCEPT !.files = Restrict(f.files, DOMAIN f.files \ mine)])

\* lines 115-120: an exception raised in the try block ends the call with ("", error_msg)
Raise(st, f, e) ==
    IF Caught(e)
    THEN Out([st EXCEPT !.pc = "done", !.exc = e,
                        !.result = Result(EmptyString, ErrorInfo(e))], f)
    ELSE Out([st EXCEPT !.pc = "raised", !.exc = e], f)

(***************************************************************************)
(* The steps of save_smpl, each a function of the call's frame st and the  *)
(* file system f to the frame and file system after the step.  st.fault    *)
(* names the step at which the environment makes an I/O operation of this  *)
(* call fail with an OSError ("none": no I/O failure); st.written lists    *)
(* the writes the call has completed, in order.                            *)
(***************************************************************************)

\* variant: the "global" check placed after the two mkdir calls
CheckGlobalAfterMkdir(st, f) ==
    LET d1 == Mkdir(f.dirs, ParentDir(st.npz_output_path), TRUE, TRUE).dirs
        d2 == Mkdir(d1, ParentDir(st.pkl_output_path), TRUE, TRUE).dirs
    IN  IF "global" \notin DOMAIN st.smpl_params
        THEN Raise(st, [f EXCEPT !.dirs = d2], Exc("ValueError", "global"))
        ELSE Out([st EXCEPT !.pc = "mkdir_npz",
                            !.global_params = st.smpl_params["global"],
                            !.npz_path = st.npz_output_path,
                            !.pkl_path = st.pkl_output_path], f)

\* lines 48-56: the "global" check, then global_params and the two Path objects
CheckGlobalStep(st, f) ==
    IF "global" \notin DOMAIN st.smpl_params
    THEN Raise(st, f, Exc("ValueError", "global"))
    ELSE Out([st EXCEPT !.pc = "mkdir_npz",
                        !.global_params = st.smpl_params["global"],
                        !.npz_path = st.npz_output_path,
                        !.pkl_path = st.pkl_output_path], f)

\* path.parent.mkdir(parents=True, exist_ok=True), then on to pc next
MkdirParent(st, f, path, fault, next) ==
    LET r == Mkdir(f.dirs, ParentDir(path), TRUE, TRUE)
    IN  IF st.fault = fault
        THEN Raise(st, f, Exc("OSError", ""))
        ELSE IF ~r.ok
             THEN Raise(st, f, Exc(r.err, ""))
             ELSE Out([st EXCEPT !.pc = next], [f EXCEPT !.dirs = r.dirs])

\* line 58
MkdirNpzStep(st, f) == MkdirParent(st, f, st.npz_path, "mkdir_npz", "mkdir_pkl")

\* line 59
MkdirPklStep(st, f) == MkdirParent(st, f, st.pkl_path, "mkdir_pkl", "suffix")

\* lines 61-64: the default extension for a path that has none
DefaultSuffix(path, ext) == IF Suffix(path) = "" THEN WithSuffix(path, ext) ELSE path

SuffixStep(st, f) ==
    Out([st EXCEPT !.pc = "convert",
                   !.npz_path = DefaultSuffix(st.npz_path, "npz"),
                   !.pkl_path = DefaultSuffix(st.pkl_path, "pkl")], f)

\* variant: a loop that converts the tensors and skips every other value
ConvertTensorsOnly(gp) ==
    [k \in {j \in DOMAIN gp : IsTensor(gp[j])} |-> ToNumpy(gp[k])]

\* lines 66-71: the conversion loop over global_params.items()
ConvertAll(gp) == [k \in DOMAIN gp |-> ToNumpy(gp[k])]

ConvertStep(st, f) ==
    IF \E k \in DOMAIN st.global_params : ~Convertible(st.global_params[k])
    THEN Raise(st, f, Exc("TypeError", ""))
    ELSE Out([st EXCEPT !.pc = "savez_open",
                        !.np_params = ConvertAll(st.global_params)], f)

\* line 73, first half: np.savez(npz_path, **np_params) binds the keywords (a key
\* named "file" collides with savez's own parameter) and opens the archive
SavezOpenStep(st, f) ==
    LET target == Absolute(SavezTarget(st.npz_path))
    IN  IF "file" \in DOMAIN st.np_params
        THEN Raise(st, f, Exc("TypeError", "file"))
        ELSE IF st.fault = "savez_open"
        THEN Raise(st, f, Exc("OSError", ""))
        ELSE IF target.dir \notin f.dirs
        THEN Raise(st, f, Exc("FileNotFoundError", ""))
        ELSE Out([st EXCEPT !.pc = "savez_write"],
                 [f EXCEPT !.files = OpenWB(f.files, target, st.self)])

\* line 73, second half: the arrays are written and the archive is closed
SavezWriteStep(st, f) ==
    LET target == Absolute(SavezTarget(st.npz_path))
    IN  IF st.fault = "savez_write"
        THEN Raise(st, [f EXCEPT !.files = CloseOnly(f.files, target, st.self)],
                   Exc("OSError", ""))
        ELSE Out([st EXCEPT !.pc = "build",
                            !.written = Append(@, Written(target, Content("npz", st.np_params)))],
                 [f EXCEPT !.files = WriteClose(f.files, target, st.self,
                                                Content("npz", st.np_params))])

\* lines 82-91: where the loop finds a required key
Resolve(st, key) ==
    IF key \in DOMAIN st.np_params THEN "converted"
    ELSE IF key \notin DOMAIN st.global_params THEN "missing"
    ELSE "fallback"

\* the position in required_keys at which the loop raises (0: it does not):
\* a key in neither set (line 86), or a fallback whose conversion fails (88-91)
Stops(st, i) ==
    LET key == required_keys[i]
    IN  \/ Resolve(st, key) = "missing"
        \/ /\ Resolve(st, key) = "fallback"
           /\ ~Convertible(st.global_params[key])

\* variant: the loop reports the last key it cannot resolve instead of the first
LastStop(st) ==
    IF \E i \in 1..Len(required_keys) : Stops(st, i)
    THEN CHOOSE i \in 1..Len(required_keys) :
            Stops(st, i) /\ \A j \in (i + 1)..Len(required_keys) : ~Stops(st, j)
    ELSE 0

FirstStop(st) ==
    IF \E i \in 1..Len(required_keys) : Stops(st, i)
    THEN CHOOSE i \in 1..Len(required_keys) :
            Stops(st, i) /\ \A j \in 1..(i - 1) : ~Stops(st, j)
    ELSE 0

\* lines 83 and 87-91: the array the loop takes for a key
ArrFor(st, key) ==
    IF Resolve(st, key) = "converted"
    THEN st.np_params[key]
    ELSE ToNumpy(st.global_params[key])

\* variant: both namespaces get every converted array, not the four required ones
BuildRecordAllKeys(st) ==
    [ns \in {"smpl_params_global", "smpl_params_incam"} |-> st.np_params]

\* lines 75-78 and 93-94: both namespaces get the same array under each required key
BuildRecord(st) ==
    [ns \in {"smpl_params_global", "smpl_params_incam"} |->
        [key \in Required |-> ArrFor(st, key)]]

\* whether the loop entered lines 87-91 (the re-conversion) before it ended
UsedFallback(st) ==
    \E i \in 1..Len(required_keys) :
        /\ Resolve(st, required_keys[i]) = "fallback"
        /\ \A j \in 1..(i - 1) : ~Stops(st, j)

\* lines 75-94
BuildStep(st, f) ==
    LET i == FirstStop(st)
        fb == UsedFallback(st)
    IN  IF i = 0
        THEN Out([st EXCEPT !.pc = "pkl_open", !.fallback = fb,
                            !.pred_np = BuildRecord(st)], f)
        ELSE IF Resolve(st, required_keys[i]) = "missing"
        THEN Raise([st EXCEPT !.fallback = fb], f, Exc("KeyError", required_keys[i]))
        ELSE Raise([st EXCEPT !.fallback = fb], f, Exc("TypeError", ""))

\* line 96: open(pkl_path, "wb")
PklOpenStep(st, f) ==
    LET target == Absolute(st.pkl_path)
    IN  IF st.fault = "pkl_open"
        THEN Raise(st, f, Exc("OSError", ""))
        ELSE IF target.dir \notin f.dirs
        THEN Raise(st, f, Exc("FileNotFoundError", ""))
        ELSE Out([st EXCEPT !.pc = "pkl_dump"],
                 [f EXCEPT !.files = OpenWB(f.files, target, st.self)])

\* line 97: pickle.dump(pred_np, handle), and the with block closes the file
PklDumpStep(st, f) ==
    LET target == Absolute(st.pkl_path)
    IN  IF st.fault = "pkl_dump"
        THEN Raise(st, [f EXCEPT !.files = CloseOnly(f.files, target, st.self)],
                   Exc("OSError", ""))
        ELSE Out([st EXCEPT !.pc = "stats",
                            !.written = Append(@, Written(target, Content("pkl", st.pred_np)))],
                 [f EXCEPT !.files = WriteClose(f.files, target, st.self,
                                                Content("pkl", st.pred_np))])

\* line 99: pred_np["smpl_params_global"]["body_pose"].shape[0]
NumFrames(pred_np) == pred_np["smpl_params_global"]["body_pose"].shape[1]

\* lines 99-113: frame count, the two stat() calls, the info text and the result
StatsStep(st, f) ==
    LET bp == st.pred_np["smpl_params_global"]["body_pose"]
        npz == Absolute(st.npz_path)
        pkl == Absolute(st.pkl_path)
    IN  IF bp.shape = <<>>
        THEN Raise(st, f, Exc("IndexError", ""))
        ELSE IF ~Exists(f.files, npz) \/ ~Exists(f.files, pkl)
        THEN Raise(st, f, Exc("FileNotFoundError", ""))
        ELSE Out([st EXCEPT !.pc = "done",
                            !.result = Result(npz,
                                Info("SaveSMPL Complete", NoExc,
                                     st.npz_path, Len(f.files[npz].blocks),
                                     st.pkl_path, Len(f.files[pkl].blocks),
                                     NumFrames(st.pred_np)))], f)

(***************************************************************************)
(* Inputs: bundles, output paths, I/O failures, initial file systems.      *)
(***************************************************************************)

\* a complete "global" namespace with T frames: the shapes of an SMPL motion
GlobalFull(T) ==
    [body_pose     |-> Val("tensor", "float32", <<T, 24, 3>>, "bp"),
     global_orient |-> Val("tensor", "float32", <<T, 3>>, "go"),
     transl        |-> Val("array", "float32", <<T, 3>>, "tr"),
     betas         |-> Val("list", "float32", <<10>>, "be")]

Full == GlobalFull(MaxFrames)

GlobalSets ==
    {GlobalFull(T) : T \in 0..MaxFrames}
    \cup {Restrict(Full, Required \ {k}) : k \in Required}
    \cup {Restrict(Full, {"global_orient", "transl"}),
          Full @@ [extra |-> Val("list", "int64", <<2>>, "ex")],
          Full @@ [file |-> Val("list", "int64", <<2>>, "fi")],
          [Full EXCEPT !.body_pose = Val("list", "float32", <<>>, "bp")],
          [Full EXCEPT !.transl = Val("tensor", "bfloat16", <<MaxFrames, 3>>, "tr")],
          Restrict([Full EXCEPT !.transl = Val("tensor", "bfloat16", <<MaxFrames, 3>>, "tr")],
                   Required \ {"betas"})}

Bundles == {[global |-> g] : g \in GlobalSets} \cup {[incam |-> Full]}

InputPaths ==
    {MkPath(FALSE, <<"output">>, <<"motion", "npz">>),
     MkPath(FALSE, <<"output">>, <<"motion">>),
     MkPath(FALSE, <<"output_pkl">>, <<"motion", "pkl">>),
     MkPath(FALSE, <<"output_pkl">>, <<"motion">>),
     MkPath(FALSE, <<"output">>, <<"motion", "dat">>),
     MkPath(FALSE, <<"output">>, <<"motion", "dat", "npz">>),
     MkPath(TRUE, Cwd \o <<"runs", "a">>, <<"motion", "npz">>)}

Faults ==
    {"none", "mkdir_npz", "mkdir_pkl", "savez_open", "savez_write", "pkl_open", "pkl_dump"}

\* what an earlier run left behind: a file longer than any this model writes
OldContent == Content("npz", [old |-> Val("array", "float32", <<MaxFrames>>, "old")])

OldFile ==
    File([i \in 1..(2 * Size(Content("npz", Full))) |-> [c |-> OldContent, i |-> i]],
         0, {}, FALSE, TRUE)

FreshFS == [dirs |-> Ancestors(Cwd), files |-> EmptyMap]

UsedFS ==
    [dirs  |-> Ancestors(Cwd) \cup {Cwd \o <<"output">>, Cwd \o <<"output_pkl">>},
     files |-> [q \in {MkPath(TRUE, Cwd \o <<"output">>, <<"motion", "npz">>),
                       MkPath(TRUE, Cwd \o <<"output">>, <<"motion", "dat">>),
                       MkPath(TRUE, Cwd \o <<"output_pkl">>, <<"motion", "pkl">>)}
                |-> OldFile]]

InitialFS == {FreshFS, UsedFS}

(***************************************************************************)
(* The state machine.                                                      *)
(***************************************************************************)
Init ==
    /\ frames = [p \in Procs |-> IdleFrame(p)]
    /\ fs \in InitialFS
    /\ fs0 = fs

\* the host calls save_smpl(smpl_params, npz_output_path, pkl_output_path)
Invoke(p, b, n, k, flt) ==
    /\ frames[p].pc = "idle"
    /\ frames' = [frames EXCEPT ![p] =
                    [@ EXCEPT !.pc = "check_global", !.smpl_params = b,
                              !.npz_output_path = n, !.pkl_output_path = k,
                              !.fault = flt]]
    /\ UNCHANGED <<fs, fs0>>

Call(p) ==
    \E b \in Bundles, n \in InputPaths, k \in InputPaths, flt \in Faults :
        Invoke(p, b, n, k, flt)

Apply(p, r) ==
    /\ frames' = [frames EXCEPT ![p] = r.st]
    /\ fs' = r.fs
    /\ UNCHANGED fs0

CheckGlobal(p) == frames[p].pc = "check_global" /\ Apply(p, CheckGlobalStep(frames[p], fs))

MkdirNpz(p) == frames[p].pc = "mkdir_npz" /\ Apply(p, MkdirNpzStep(frames[p], fs))

MkdirPkl(p) == frames[p].pc = "mkdir_pkl" /\ Apply(p, MkdirPklStep(frames[p], fs))

DefaultSuffixes(p) == frames[p].pc = "suffix" /\ Apply(p, SuffixStep(frames[p], fs))

Convert(p) == frames[p].pc = "convert" /\ Apply(p, ConvertStep(frames[p], fs))

SavezOpen(p) == frames[p].pc = "savez_open" /\ Apply(p, SavezOpenStep(frames[p], fs))

SavezWrite(p) == frames[p].pc = "savez_write" /\ Apply(p, SavezWriteStep(frames[p], fs))

Build(p) == frames[p].pc = "build" /\ Apply(p, BuildStep(frames[p], fs))

PklOpen(p) == frames[p].pc = "pkl_open" /\ Apply(p, PklOpenStep(frames[p], fs))

PklDump(p) == frames[p].pc = "pkl_dump" /\ Apply(p, PklDumpStep(frames[p], fs))

Stats(p) == frames[p].pc = "stats" /\ Apply(p, StatsStep(frames[p], fs))

Step(p) ==
    \/ CheckGlobal(p)
    \/ MkdirNpz(p)
    \/ MkdirPkl(p)
    \/ DefaultSuffixes(p)
    \/ Convert(p)
    \/ SavezOpen(p)
    \/ SavezWrite(p)
    \/ Build(p)
    \/ PklOpen(p)
    \/ PklDump(p)
    \/ Stats(p)

\* one invocation, run from start to end on a file system that may hold old files
Next ==
    \/ Call(1)
    \/ Step(1)

Spec == Init /\ [][Next]_vars

(***************************************************************************)
(* Two invocations at once: every interleaving of their steps.             *)
(***************************************************************************)
ConcBundles ==
    {[global |-> Full],
     [global |-> GlobalFull(0)],
     [global |-> Restrict(Full, Required \ {"betas"})]}

\* <<npz_output_path, pkl_output_path>>
ConcPaths ==
    {<<MkPath(FALSE, <<"output">>, <<"motion">>),
       MkPath(FALSE, <<"output_pkl">>, <<"motion">>)>>,
     <<MkPath(FALSE, <<"output">>, <<"motion", "npz">>),
       MkPath(FALSE, <<"output_pkl">>, <<"motion", "pkl">>)>>,
     <<MkPath(TRUE, Cwd \o <<"runs", "a">>, <<"motion", "npz">>),
       MkPath(FALSE, <<"output">>, <<"motion", "dat", "npz">>)>>,
     <<MkPath(FALSE, <<"output">>, <<"motion", "dat">>),
       MkPath(FALSE, <<"output_pkl">>, <<"motion", "pkl">>)>>,
     <<MkPath(FALSE, <<"output">>, <<"motion", "npz">>),
       MkPath(FALSE, <<"output">>, <<"motion", "npz">>)>>}

ConcFaults == {"none", "pkl_dump"}

ConcInit ==
    /\ frames = [p \in Procs |-> IdleFrame(p)]
    /\ fs = FreshFS
    /\ fs0 = fs

ConcCall(p) ==
    \E b \in ConcBundles, np \in ConcPaths, flt \in ConcFaults :
        Invoke(p, b, np[1], np[2], flt)

ConcNext ==
    \E p \in Procs :
        \/ ConcCall(p)
        \/ Step(p)

ConcSpec == ConcInit /\ [][ConcNext]_vars

(***************************************************************************)
(* A call run alone, from its arguments to its end, on file system f.      *)
(***************************************************************************)
StepOf(st, f) ==
    CASE st.pc = "check_global" -> CheckGlobalStep(st, f)
      [] st.pc = "mkdir_npz"    -> MkdirNpzStep(st, f)
      [] st.pc = "mkdir_pkl"    -> MkdirPklStep(st, f)
      [] st.pc = "suffix"       -> SuffixStep(st, f)
      [] st.pc = "convert"      -> ConvertStep(st, f)
      [] st.pc = "savez_open"   -> SavezOpenStep(st, f)
      [] st.pc = "savez_write"  -> SavezWriteStep(st, f)
      [] st.pc = "build"        -> BuildStep(st, f)
      [] st.pc = "pkl_open"     -> PklOpenStep(st, f)
      [] st.pc = "pkl_dump"     -> PklDumpStep(st, f)
      [] st.pc = "stats"        -> StatsStep(st, f)

RECURSIVE Run(_, _)
Run(st, f) ==
    IF st.pc \in {"done", "raised"}
    THEN Out(st, f)
    ELSE LET r == StepOf(st, f) IN Run(r.st, r.fs)

\* the call of invocation p, run alone on the initial file system
Alone(p) ==
    Run([IdleFrame(p) EXCEPT !.pc = "check_global",
                             !.smpl_params = frames[p].smpl_params,
                             !.npz_output_path = frames[p].npz_output_path,
                             !.pkl_output_path = frames[p].pkl_output_path,
                             !.fault = frames[p].fault], fs0)

(***************************************************************************)
(* Properties of one call (specification Spec).                            *)
(***************************************************************************)
Started(st) == st.pc # "idle"

Ended(st) == st.pc = "done"

Failed(st) == st.exc # NoExc

HasGlobal(st) == "global" \in DOMAIN st.smpl_params

\* the failure pair ("", "SaveSMPL failed: " + str(e))
FailurePair(e) ==
    Result(EmptyString,
           Info("SaveSMPL failed: ", e, EmptyString, 0, EmptyString, 0, 0))

\* the output paths with their default extensions, as absolute paths
NormNpz(st) == Absolute(DefaultSuffix(st.npz_output_path, "npz"))

NormPkl(st) == Absolute(DefaultSuffix(st.pkl_output_path, "pkl"))

\* a file is as it was before the call: absent as before, or the same blocks
Untouched(path) ==
    /\ Exists(fs.files, path) <=> Exists(fs0.files, path)
    /\ Exists(fs.files, path) => fs.files[path].blocks = fs0.files[path].blocks

\* the required names the "global" namespace lacks, and the first of them
MissingKeys(st) == Required \ DOMAIN st.smpl_params["global"]

FirstMissing(st) ==
    required_keys[CHOOSE i \in 1..Len(required_keys) :
                     /\ required_keys[i] \in MissingKeys(st)
                     /\ \A j \in 1..(i - 1) : required_keys[j] \notin MissingKeys(st)]

\* the content a reader finds in a file ("corrupt" when it is no whole content)
ReadBack(path) ==
    IF /\ Exists(fs.files, path)
       /\ fs.files[path].blocks # <<>>
       /\ fs.files[path].blocks = Blocks(fs.files[path].blocks[1].c)
    THEN fs.files[path].blocks[1].c
    ELSE Content("corrupt", EmptyMap)

\* a converted array that equals the original value
SameArray(a, v) ==
    a.kind = "array" /\ a.dtype = v.dtype /\ a.shape = v.shape /\ a.data = v.data

\* C1: save_smpl never raises to its caller; every failure ends the call with
\* the pair ("", "SaveSMPL failed: " + message), and the first element of the
\* result is the empty string exactly when the call failed.
C1_NeverRaises ==
    \A p \in Procs :
        LET st == frames[p]
        IN  /\ st.pc # "raised"
            /\ Ended(st) =>
                /\ (st.result.file_path = EmptyString) <=> Failed(st)
                /\ Failed(st) => st.result = FailurePair(st.exc)
                /\ ~Failed(st) => st.fault = "none" /\ Len(st.written) = 2
                /\ st.fault # "none" /\ HasGlobal(st) => Failed(st)

\* a call that failed at the object-file write and returned the failure pair
C1_Witness ==
    \E p \in Procs :
        /\ Ended(frames[p])
        /\ frames[p].exc = Exc("OSError", "")
        /\ frames[p].fault = "pkl_dump"
        /\ frames[p].result = FailurePair(Exc("OSError", ""))

\* C2: without the key "global" the call returns an empty path and an error
\* that mentions 'global', and the file system is left as it was: no
\* directory and no file is created.
C2_NoGlobal ==
    \A p \in Procs :
        LET st == frames[p]
        IN  Started(st) /\ ~HasGlobal(st) =>
                /\ fs = fs0
                /\ st.pc \in {"check_global", "done"}
                /\ Ended(st) => st.result = FailurePair(Exc("ValueError", "global"))

\* a call without "global" has ended and its output directory was not created
C2_Witness ==
    \E p \in Procs :
        /\ Ended(frames[p])
        /\ ~HasGlobal(frames[p])
        /\ frames[p].result.info.exc.key = "global"
        /\ ParentDir(frames[p].npz_output_path) \notin fs.dirs

\* C3 as claimed: when "global" lacks a required name, the call returns an
\* empty path and an error naming the first missing name, and the object file
\* is neither written nor changed.
C3_MissingKeyNamed ==
    \A p \in Procs :
        LET st == frames[p]
        IN  Ended(st) /\ HasGlobal(st) /\ MissingKeys(st) # {} =>
                /\ st.result = FailurePair(Exc("KeyError", FirstMissing(st)))
                /\ Untouched(NormPkl(st))

\* C3 amended: when "global" lacks a required name, the call returns an empty
\* path and never opens or writes the object file (the file at the object path
\* changes only when the archive is written to that same path); the error
\* names the first missing name whenever the steps before the required-key
\* check succeeded (the archive was written), and otherwise it is the error of
\* the earlier step that failed.
C3_MissingKeyAmended ==
    \A p \in Procs :
        LET st == frames[p]
        IN  Started(st) /\ HasGlobal(st) /\ MissingKeys(st) # {} =>
                /\ st.pc \notin {"pkl_open", "pkl_dump", "stats"}
                /\ \A i \in 1..Len(st.written) : st.written[i].c.fmt = "npz"
                /\ NormPkl(st) # Absolute(SavezTarget(NormNpz(st))) => Untouched(NormPkl(st))
                /\ Ended(st) =>
                    /\ Failed(st)
                    /\ st.result = FailurePair(st.exc)
                    /\ st.written # <<>> => st.exc = Exc("KeyError", FirstMissing(st))
                    /\ st.written = <<>> => st.exc.type # "KeyError"

\* body_pose and betas are missing, the error names body_pose, and the old
\* object file is as it was
C3_Witness ==
    \E p \in Procs :
        LET st == frames[p]
        IN  /\ Ended(st) /\ HasGlobal(st)
            /\ MissingKeys(st) = {"body_pose", "betas"}
            /\ st.exc = Exc("KeyError", "body_pose")
            /\ Exists(fs0.files, NormPkl(st))
            /\ Untouched(NormPkl(st))

\* C4: the record written to the object file has exactly the two namespaces
\* smpl_params_global and smpl_params_incam, each with exactly the four
\* required keys, and the two namespaces hold identical values.
C4_RecordShape ==
    \A p \in Procs :
        LET st == frames[p]
        IN  \A i \in 1..Len(st.written) :
                st.written[i].c.fmt = "pkl" =>
                    LET rec == ReadBack(st.written[i].path).data
                    IN  /\ ReadBack(st.written[i].path) = st.written[i].c
                        /\ DOMAIN rec = {"smpl_params_global", "smpl_params_incam"}
                        /\ \A ns \in DOMAIN rec : DOMAIN rec[ns] = Required
                        /\ \A k \in Required :
                              rec["smpl_params_incam"][k] = rec["smpl_params_global"][k]

\* a successful call on a bundle with an extra key wrote a record of the four keys
C4_Witness ==
    \E p \in Procs :
        LET st == frames[p]
        IN  /\ Ended(st) /\ ~Failed(st)
            /\ "extra" \in DOMAIN st.smpl_params["global"]
            /\ ReadBack(NormPkl(st)).fmt = "pkl"
            /\ DOMAIN ReadBack(NormPkl(st)).data["smpl_params_incam"] = Required

\* a bundle the export is meant to accept: the four required names are there,
\* every value converts, body_pose has a leading dimension, and no key has the
\* name of np.savez's own parameter
ValidBundle(st) ==
    /\ HasGlobal(st)
    /\ MissingKeys(st) = {}
    /\ \A k \in DOMAIN st.smpl_params["global"] : Convertible(st.smpl_params["global"][k])
    /\ st.smpl_params["global"]["body_pose"].shape # <<>>
    /\ "file" \notin DOMAIN st.smpl_params["global"]

\* C5 as claimed (stated for calls whose two output paths name different
\* files): after a successful call, the archive read back at the returned path
\* has one array per key of "global", each equal to the original; the object
\* file read back has the four required arrays equal to the originals; the
\* frame count of the info text is the leading dimension of body_pose.
C5_RoundTrip ==
    \A p \in Procs :
        LET st == frames[p]
            gp == st.smpl_params["global"]
            npz == ReadBack(st.result.file_path)
            pkl == ReadBack(NormPkl(st))
        IN  Ended(st) /\ ~Failed(st) /\ NormPkl(st) # NormNpz(st) =>
                /\ npz.fmt = "npz"
                /\ DOMAIN npz.data = DOMAIN gp
                /\ \A k \in DOMAIN gp : SameArray(npz.data[k], gp[k])
                /\ pkl.fmt = "pkl"
                /\ \A k \in Required : SameArray(pkl.data["smpl_params_global"][k], gp[k])
                /\ st.result.info.num_frames = gp["body_pose"].shape[1]

\* C6 as claimed: for a valid bundle (and no I/O failure) the two files are
\* created at the normalized output paths, a path with an extension being used
\* as given; missing parent directories are created; the call succeeds and
\* returns the absolute normalized archive path, where a file exists.
C6_OutputLocation ==
    \A p \in Procs :
        LET st == frames[p]
        IN  Ended(st) /\ ValidBundle(st) /\ st.fault = "none" =>
                /\ ~Failed(st)
                /\ st.result.file_path = NormNpz(st)
                /\ Len(st.written) = 2
                /\ st.written[1].path = NormNpz(st)
                /\ st.written[2].path = NormPkl(st)
                /\ Exists(fs.files, NormNpz(st)) /\ Exists(fs.files, NormPkl(st))
                /\ {NormNpz(st).dir, NormPkl(st).dir} \subseteq fs.dirs

\* the part of C6 that holds: the same, for archive paths whose normalized name
\* ends in ".npz"
OutputLocationForNpzNames ==
    \A p \in Procs :
        LET st == frames[p]
        IN  /\ Ended(st) /\ ValidBundle(st) /\ st.fault = "none"
            /\ Suffix(NormNpz(st)) = "npz"
            => /\ ~Failed(st)
               /\ st.result.file_path = NormNpz(st)
               /\ Len(st.written) = 2
               /\ st.written[1].path = NormNpz(st)
               /\ st.written[2].path = NormPkl(st)
               /\ Exists(fs.files, NormNpz(st)) /\ Exists(fs.files, NormPkl(st))
               /\ {NormNpz(st).dir, NormPkl(st).dir} \subseteq fs.dirs

\* C7 as claimed: whenever the archive write succeeded and a later step
\* failed, the archive written by the call is still on disk and the call
\* returns the failure pair.
C7_NoRollback ==
    \A p \in Procs :
        LET st == frames[p]
        IN  Ended(st) /\ Failed(st) /\ st.written # <<>> =>
                /\ st.result = FailurePair(st.exc)
                /\ ReadBack(st.written[1].path) = Content("npz", st.np_params)

\* C7 amended: whenever the archive write succeeded and a later step failed,
\* the call returns the failure pair and the archive it wrote is still on
\* disk, unless the object-file path names the very file the archive was
\* written to (opening the object file then truncates the archive).
C7_NoRollbackAmended ==
    \A p \in Procs :
        LET st == frames[p]
        IN  Ended(st) /\ Failed(st) /\ st.written # <<>> =>
                /\ st.result = FailurePair(st.exc)
                /\ st.written[1].c = Content("npz", st.np_params)
                /\ Absolute(st.pkl_path) # st.written[1].path =>
                      ReadBack(st.written[1].path) = Content("npz", st.np_params)

\* the object-file write failed after the archive was written to another file,
\* and the archive is still there
C7_Witness ==
    \E p \in Procs :
        LET st == frames[p]
        IN  /\ Ended(st) /\ st.exc = Exc("OSError", "") /\ st.fault = "pkl_dump"
            /\ Absolute(st.pkl_path) # st.written[1].path
            /\ ReadBack(st.written[1].path) = Content("npz", st.np_params)
            /\ fs.files[Absolute(st.pkl_path)].blocks = <<>>
            /\ st.result.file_path = EmptyString

\* C10: the re-conversion fallback never runs: after the conversion loop the
\* converted set has exactly the keys of the raw set, so a required key that
\* is not in the converted set is not in the raw set either and the branch
\* ends in the missing-key error.
C10_FallbackDead ==
    \A p \in Procs :
        LET st == frames[p]
        IN  /\ ~st.fallback
            /\ st.pc \in {"savez_open", "savez_write", "build", "pkl_open", "pkl_dump", "stats"} =>
                  DOMAIN st.np_params = DOMAIN st.global_params
            /\ st.pc = "build" =>
                  \A k \in Required : Resolve(st, k) # "fallback"
            /\ Ended(st) /\ st.exc.type = "KeyError" =>
                  /\ st.exc.key \in Required
                  /\ st.exc.key \notin DOMAIN st.global_params
                  /\ st.exc.key \notin DOMAIN st.np_params

\* the loop ended in the missing-key error for betas without entering the fallback
C10_Witness ==
    \E p \in Procs :
        LET st == frames[p]
        IN  /\ Ended(st) /\ st.exc = Exc("KeyError", "betas")
            /\ DOMAIN st.np_params = DOMAIN st.global_params
            /\ ~st.fallback

(***************************************************************************)
(* Properties of two concurrent calls (specification ConcSpec).            *)
(***************************************************************************)
AllEnded == \A p \in Procs : Ended(frames[p])

\* the two normalized output paths of a call
OutputPaths(st) == {NormNpz(st), NormPkl(st)}

\* every file a call opens or stats
TouchedPaths(st) == OutputPaths(st) \cup {Absolute(SavezTarget(NormNpz(st)))}

\* the file at path is as the call of p leaves it when run alone
SameFileAsAlone(p, path) ==
    LET a == Alone(p).fs.files
    IN  /\ Exists(fs.files, path) <=> Exists(a, path)
        /\ Exists(fs.files, path) => fs.files[path].blocks = a[path].blocks

SameAsAlone(p) ==
    /\ frames[p].result = Alone(p).st.result
    /\ \A path \in OutputPaths(frames[p]) : SameFileAsAlone(p, path)

\* C8 as claimed: two concurrent calls with disjoint output paths are
\* independent: under every interleaving each returns the result and leaves
\* the two files it would when run alone.
C8_Independent ==
    AllEnded /\ OutputPaths(frames[1]) \cap OutputPaths(frames[2]) = {} =>
        \A p \in Procs : SameAsAlone(p)

\* the same, for calls that touch no file in common
IndependentOnDisjointFiles ==
    AllEnded /\ TouchedPaths(frames[1]) \cap TouchedPaths(frames[2]) = {} =>
        \A p \in Procs :
            /\ frames[p].result = Alone(p).st.result
            /\ \A path \in TouchedPaths(frames[p]) : SameFileAsAlone(p, path)

\* the invocations that completed a write of the file
Writers(path) ==
    {p \in Procs : \E i \in 1..Len(frames[p].written) : frames[p].written[i].path = path}

\* the content of the last write of the file that the call completed
LastWritten(st, path) ==
    LET idx == {i \in 1..Len(st.written) : st.written[i].path = path}
        last == CHOOSE i \in idx : \A j \in idx : j <= i
    IN  st.written[last].c

====
